---- MODULE Spec2Model ----
(***************************************************************************)
(* Model of the proofreading repository:                                   *)
(*   - the desktop application v3 (PROOFREADING/proofreading_v3.py):       *)
(*     content-region detection, manual crop overrides, page/pair          *)
(*     navigation and per-page validation;                                 *)
(*   - the Flask application (PROOFREADING/PROOFREADING_WEB/app.py):       *)
(*     upload/pairing, validate_item, auto_approve;                        *)
(*   - the web backend similarity service                                  *)
(*     (proofreading-web/backend/services/ssim_calculator.py).             *)
(*                                                                         *)
(* Python None is the empty tuple; an optional value is either <<>> or a   *)
(* non-empty tuple.  Confidences are in percent (1.0 = 100, 0.9 = 90).     *)
(***************************************************************************)
EXTENDS Integers, Sequences, FiniteSets, TLC

VARIABLES
    \* ---- desktop v3: fields of ImageComparator ----
    original_folder,
    printer_folder,
    startup_mode,
    image_pairs,
    current_index,
    current_page,
    show_only_matched,
    auto_crop_enabled,
    manual_bounds_original,
    manual_bounds_printer,
    last_detection,
    current_original_img,
    current_printer_img,
    total_pages_original,
    total_pages_printer,
    page_validations,
    listbox,
    page_status_label,
    \* ---- desktop v3: history variables (not program state) ----
    shown,
    bounds_set_at,
    decided,
    moved_with_crop,
    cancel_log,
    \* ---- Flask app ----
    comparison_results,
    flask_log,
    uploaded,
    \* ---- detection engine called as a function ----
    engine_pc,
    detection,
    similarity_score,
    web_result,
    resized,
    both_ways,
    \* ---- web backend (proofreading-web/backend) ----
    rendered,
    today,
    quotas,
    get_quota_pending,
    compare_response,
    user_doc,
    subscription,
    webhook_log,
    \* ---- history of the web backend ----
    granted,
    requests

folderVars == <<original_folder, printer_folder>>
desktopVars == <<original_folder, printer_folder, startup_mode, image_pairs, current_index, current_page,
                 show_only_matched, auto_crop_enabled, manual_bounds_original,
                 manual_bounds_printer, last_detection, current_original_img,
                 current_printer_img, total_pages_original, total_pages_printer,
                 page_validations, listbox, page_status_label,
                 shown, bounds_set_at, decided, moved_with_crop, cancel_log>>
flaskVars == <<comparison_results, flask_log, uploaded>>
engineVars == <<engine_pc, detection, similarity_score, web_result, resized, both_ways>>
quotaVars == <<today, quotas, get_quota_pending, compare_response, granted, requests>>
stripeVars == <<user_doc, subscription, webhook_log>>
webVars == <<rendered, quotaVars, stripeVars>>
vars == <<desktopVars, flaskVars, engineVars, webVars>>

None == <<>>

Max(a, b) == IF a >= b THEN a ELSE b

Min(a, b) == IF a <= b THEN a ELSE b

(***************************************************************************)
(* Images.  A rasterized page is described by what the detection methods   *)
(* read of it: its size, the first and last row / column whose share of    *)
(* non-white pixels exceeds min_content_ratio (np.where(...)[0], <<>> when *)
(* there is none), the bounding box <<top, left, bottom, right>> of the    *)
(* dilated Canny edge pixels (<<>> when fewer than 100 edge pixels), and   *)
(* whether the method raises on this image.                                *)
(***************************************************************************)
Img(w, h, rows, cols, thr_raises, edge_box, edge_raises) ==
    [w |-> w, h |-> h, rows |-> rows, cols |-> cols, thr_raises |-> thr_raises,
     edge_box |-> edge_box, edge_raises |-> edge_raises]

Spans(n) == {<<>>, <<0, n - 1>>, <<n \div 4, (3 * n) \div 4>>, <<n \div 2, (n \div 2) + 30>>}

EdgeBoxes(w, h) ==
    {<<>>, <<0, 0, h - 1, w - 1>>, <<h \div 4, w \div 4, (3 * h) \div 4, (3 * w) \div 4>>}

ImageSizes == {<<200, 200>>, <<400, 120>>}

Images ==
    UNION {
        {Img(s[1], s[2], r, c, FALSE, e, FALSE) :
            r \in Spans(s[2]) \ {<<>>}, c \in Spans(s[1]) \ {<<>>}, e \in EdgeBoxes(s[1], s[2])}
        \cup {Img(s[1], s[2], <<>>, <<0, s[1] - 1>>, FALSE, e, FALSE) : e \in EdgeBoxes(s[1], s[2])}
        \cup {Img(s[1], s[2], <<0, s[2] - 1>>, <<>>, FALSE, e, FALSE) : e \in EdgeBoxes(s[1], s[2])}
        \cup {Img(s[1], s[2], <<0, s[2] - 1>>, <<0, s[1] - 1>>, TRUE, e, er) :
                e \in EdgeBoxes(s[1], s[2]) \ {<<>>}, er \in BOOLEAN}
        : s \in ImageSizes}

\* The blank image the engine variables hold before any call.
BlankImage == Img(200, 200, <<>>, <<>>, FALSE, <<>>, FALSE)

MinRegionSide == 100

detect_content_bounds_unclamped(img) ==
    IF img.thr_raises THEN None
    ELSE IF img.rows = <<>> \/ img.cols = <<>> THEN None
    ELSE LET padding_h == (img.h * 2) \div 100
             padding_w == (img.w * 2) \div 100
         IN <<img.cols[1] - padding_w, img.rows[1] - padding_h,
              img.cols[2] + padding_w, img.rows[2] + padding_h>>

\* proofreading_v3.py detect_content_bounds: the threshold method.
detect_content_bounds(img) ==
    IF img.thr_raises THEN None
    ELSE IF img.rows = <<>> \/ img.cols = <<>> THEN None
    ELSE LET top == img.rows[1]
             bottom == img.rows[2]
             left == img.cols[1]
             right == img.cols[2]
             padding_h == (img.h * 2) \div 100
             padding_w == (img.w * 2) \div 100
         IN <<Max(0, left - padding_w), Max(0, top - padding_h),
              Min(img.w, right + padding_w), Min(img.h, bottom + padding_h)>>

detect_content_bounds_edge_uncaught(img) ==
    IF img.edge_box = <<>> THEN None
    ELSE LET top == img.edge_box[1]
             left == img.edge_box[2]
             bottom == img.edge_box[3]
             right == img.edge_box[4]
             padding == (Min(img.h, img.w) * 5) \div 100
         IN <<Max(0, left - padding), Max(0, top - padding),
              Min(img.w, right + padding), Min(img.h, bottom + padding)>>

\* proofreading_v3.py detect_content_bounds_edge: the Canny edge method.
detect_content_bounds_edge(img) ==
    IF img.edge_raises THEN None
    ELSE IF img.edge_box = <<>> THEN None
    ELSE LET top == img.edge_box[1]
             left == img.edge_box[2]
             bottom == img.edge_box[3]
             right == img.edge_box[4]
             padding == (Min(img.h, img.w) * 5) \div 100
         IN <<Max(0, left - padding), Max(0, top - padding),
              Min(img.w, right + padding), Min(img.h, bottom + padding)>>

\* 0.15 < content_ratio < 0.95, content_ratio = area / (w * h).
RatioOk(bounds, w, h) ==
    LET area == (bounds[3] - bounds[1]) * (bounds[4] - bounds[2])
    IN 100 * area > 15 * (w * h) /\ 100 * area < 95 * (w * h)

\* The validation gate of detect_content_region (lines 267-275, 283-287).
GateOk(bounds, w, h) ==
    /\ RatioOk(bounds, w, h)
    /\ (bounds[3] - bounds[1]) >= MinRegionSide
    /\ (bounds[4] - bounds[2]) >= MinRegionSide

FullRegion(img) == <<<<0, 0, img.w, img.h>>, 50, "full">>

DisabledRegion(img) == <<<<0, 0, img.w, img.h>>, 100, "disabled">>

detect_content_region_edge_first(img, auto_crop) ==
    IF ~auto_crop THEN DisabledRegion(img)
    ELSE LET bounds_threshold == detect_content_bounds(img)
             bounds_edge == detect_content_bounds_edge(img)
         IN IF bounds_edge # None /\ GateOk(bounds_edge, img.w, img.h)
            THEN <<bounds_edge, 70, "edge">>
            ELSE IF bounds_threshold # None /\ GateOk(bounds_threshold, img.w, img.h)
            THEN <<bounds_threshold, 90, "threshold">>
            ELSE FullRegion(img)

\* proofreading_v3.py detect_content_region: <<bounds, confidence, method>>.
detect_content_region(img, auto_crop) ==
    IF ~auto_crop THEN DisabledRegion(img)
    ELSE LET bounds_threshold == detect_content_bounds(img)
             bounds_edge == detect_content_bounds_edge(img)
         IN IF bounds_threshold # None /\ GateOk(bounds_threshold, img.w, img.h)
            THEN <<bounds_threshold, 90, "threshold">>
            ELSE IF bounds_edge # None /\ GateOk(bounds_edge, img.w, img.h)
            THEN <<bounds_edge, 70, "edge">>
            ELSE FullRegion(img)

(***************************************************************************)
(* Desktop v3 calculate_similarity: the detection part (lines 830-849).    *)
(* img1, img2 are images (never None here: line 826 returns before).       *)
(***************************************************************************)
SideDetectionIgnoringManual(img, manual_bounds, auto_crop) ==
    detect_content_region(img, auto_crop)

\* Lines 831-835 (and 837-841 for the printer side).
SideDetection(img, manual_bounds, auto_crop) ==
    IF manual_bounds # None
    THEN <<manual_bounds, 100, "manual">>
    ELSE detect_content_region(img, auto_crop)

\* Lines 844-849: the record stored in self.last_detection.
Abs(x) == IF x >= 0 THEN x ELSE 0 - x

\* PIL Image.thumbnail(target) on an image of size <<w, h>>: the size is kept
\* when it already fits; otherwise one side takes the target and the other
\* the floor or the ceiling of its exact value, whichever keeps the aspect
\* ratio closer (the floor first), and at least 1.  It never enlarges.
thumbnail(size, target) ==
    LET w == size[1]
        h == size[2]
        x == target[1]
        y == target[2]
        fx == (y * w) \div h
        cx == IF fx * h = y * w THEN fx ELSE fx + 1
        fy == (x * h) \div w
        cy == IF fy * w = x * h THEN fy ELSE fy + 1
    IN IF x >= w /\ y >= h THEN size
       ELSE IF x * h >= w * y
       THEN <<Max(IF Abs(w * y - fx * h) <= Abs(w * y - cx * h) THEN fx ELSE cx, 1), y>>
       ELSE <<x, Max(IF fy = 0 \/ Abs(w * fy - x * h) * cy <= Abs(w * cy - x * h) * fy
                     THEN fy ELSE cy, 1)>>

\* resize_preserve_aspect(img, target_size) on an image of the given size:
\* the size of the pasted content, where it is pasted and the white canvas.
resize_preserve_aspect(size, target_size) ==
    LET img_copy == thumbnail(size, target_size)
    IN [input |-> size,
        content |-> img_copy,
        offset |-> <<(target_size[1] - img_copy[1]) \div 2,
                     (target_size[2] - img_copy[2]) \div 2>>,
        canvas |-> target_size]

\* The size of img.crop(bounds).
CropSize(bounds) == <<bounds[3] - bounds[1], bounds[4] - bounds[2]>>

TargetSize == <<800, 800>>

LastDetection(img1, img2, mb_original, mb_printer, auto_crop) ==
    LET d1 == SideDetection(img1, mb_original, auto_crop)
        d2 == SideDetection(img2, mb_printer, auto_crop)
    IN [bounds1 |-> d1[1], bounds2 |-> d2[1],
        confidence |-> Min(d1[2], d2[2]),
        conf1 |-> d1[2], conf2 |-> d2[2],
        methods |-> <<d1[3], d2[3]>>]

(***************************************************************************)
(* Web backend ssim_calculator.py.                                         *)
(* SSIM itself is the library's: its value is an input, in units of 1e-5   *)
(* (100000 = 1.0).  similarity is in hundredths of a percent.              *)
(***************************************************************************)
SsimValues == {0, 50000, 94996}

Clamp(lo, x, hi) == Max(lo, Min(hi, x))

\* round(score * 100, 2) for score in units of 1e-5: hundredths of a percent.
Round2(score) == (score + 5) \div 10

\* ssim_calculator.py detect_content_bounds: same threshold method.
web_detect_content_bounds(img) ==
    IF img.thr_raises THEN None
    ELSE IF img.rows = <<>> \/ img.cols = <<>> THEN None
    ELSE LET top == img.rows[1]
             bottom == img.rows[2]
             left == img.cols[1]
             right == img.cols[2]
             padding_h == (img.h * 2) \div 100
             padding_w == (img.w * 2) \div 100
         IN <<Max(0, left - padding_w), Max(0, top - padding_h),
              Min(img.w, right + padding_w), Min(img.h, bottom + padding_h)>>

\* ssim_calculator.py calculate_similarity.  img1o, img2o are optional images:
\* <<>> stands for bytes Image.open cannot decode (the except branch).
web_calculate_similarity(img1o, img2o, auto_crop, ssim_value) ==
    IF img1o = None \/ img2o = None
    THEN [similarity |-> 0, bounds1 |-> None, bounds2 |-> None,
          confidence |-> 0, method |-> "error"]
    ELSE LET img1 == img1o[1]
             img2 == img2o[1]
             b1 == web_detect_content_bounds(img1)
             b2 == web_detect_content_bounds(img2)
             found == auto_crop /\ b1 # None /\ b2 # None
             reasonable == found /\ RatioOk(b1, img1.w, img1.h) /\ RatioOk(b2, img2.w, img2.h)
         IN [similarity |-> Round2(Clamp(0, ssim_value, 100000)),
             bounds1 |-> IF ~auto_crop \/ (found /\ ~reasonable) THEN None ELSE b1,
             bounds2 |-> IF ~auto_crop \/ (found /\ ~reasonable) THEN None ELSE b2,
             confidence |-> IF reasonable THEN 90 ELSE 100,
             method |-> IF reasonable THEN "threshold" ELSE "full"]

\* ssim_calculator.py calculate_similarity, lines 132-135: the two images,
\* cropped when both regions are reasonable, put on the common canvas.
web_resized(img1o, img2o, auto_crop) ==
    IF img1o = None \/ img2o = None THEN None
    ELSE LET r == web_calculate_similarity(img1o, img2o, auto_crop, 0)
             size1 == IF r.method = "threshold" THEN CropSize(r.bounds1)
                      ELSE <<img1o[1].w, img1o[1].h>>
             size2 == IF r.method = "threshold" THEN CropSize(r.bounds2)
                      ELSE <<img2o[1].w, img2o[1].h>>
         IN <<resize_preserve_aspect(size1, TargetSize),
              resize_preserve_aspect(size2, TargetSize)>>

(***************************************************************************)
(* The detection engine called as a function: the inputs are drawn in      *)
(* EngineInit, one action per entry point stores its result.               *)
(***************************************************************************)
ManualRects == {<<10, 10, 60, 80>>}

OptImages == {None} \cup {<<i>> : i \in Images}

\* detect_content_region(img) on the original image.
EngineDetect ==
    /\ engine_pc = "input"
    /\ current_original_img # None
    /\ detection' = detect_content_region(current_original_img[1], auto_crop_enabled)
    /\ engine_pc' = "detected"
    /\ UNCHANGED <<desktopVars, flaskVars, similarity_score, web_result, resized, both_ways, webVars>>

\* Desktop calculate_similarity(img1, img2): line 826 returns 0.0 before any
\* detection when an image is missing; otherwise the return value is the
\* library's SSIM cut to [0, 1], in units of 1e-5.
EngineCalculateSimilarity ==
    /\ engine_pc = "input"
    /\ engine_pc' = "desktop"
    /\ \E s \in SsimValues :
         similarity_score' =
             IF current_original_img = None \/ current_printer_img = None
             THEN <<0>>
             ELSE <<Clamp(0, s, 100000)>>
    /\ last_detection' =
         IF current_original_img = None \/ current_printer_img = None
         THEN last_detection
         ELSE <<LastDetection(current_original_img[1], current_printer_img[1],
                              manual_bounds_original, manual_bounds_printer,
                              auto_crop_enabled)>>
    /\ UNCHANGED <<original_folder, printer_folder, startup_mode, image_pairs,
                   current_index, current_page,
                   show_only_matched, auto_crop_enabled, manual_bounds_original,
                   manual_bounds_printer, current_original_img,
                   current_printer_img, total_pages_original, total_pages_printer,
                   page_validations, listbox, page_status_label,
                   shown, bounds_set_at, decided, moved_with_crop, cancel_log>>
    /\ resized' =
         IF current_original_img = None \/ current_printer_img = None
         THEN resized
         ELSE LET d == LastDetection(current_original_img[1], current_printer_img[1],
                                     manual_bounds_original, manual_bounds_printer,
                                     auto_crop_enabled)
              IN <<resize_preserve_aspect(CropSize(d.bounds1), TargetSize),
                   resize_preserve_aspect(CropSize(d.bounds2), TargetSize)>>
    /\ UNCHANGED <<flaskVars, detection, web_result, both_ways, webVars>>

\* Web backend calculate_similarity(img1_bytes, img2_bytes, auto_crop).
EngineWebCalculateSimilarity ==
    /\ engine_pc = "input"
    /\ engine_pc' = "web"
    /\ \E s \in SsimValues :
         web_result' = <<web_calculate_similarity(current_original_img, current_printer_img,
                                                  auto_crop_enabled, s)>>
    /\ resized' = web_resized(current_original_img, current_printer_img, auto_crop_enabled)
    /\ UNCHANGED <<desktopVars, flaskVars, detection, similarity_score, both_ways, webVars>>

EngineNext ==
    \/ EngineDetect
    \/ EngineCalculateSimilarity
    \/ EngineWebCalculateSimilarity

(***************************************************************************)
(* Flask app (PROOFREADING_WEB/app.py).                                    *)
(* A PDF file is its base name (a tuple of characters) and its page count; *)
(* 0 pages stands for a file fitz cannot open or render.                   *)
(* Scores and thresholds are in hundredths of a percent (95.0 = 9500).     *)
(***************************************************************************)
CodeLen == 8

MaxPages == 3

NameA1 == <<"A", "B", "C", "1", "2", "3", "4", "5", "_", "1">>
NameA2 == <<"A", "B", "C", "1", "2", "3", "4", "5", "_", "2">>
NameB == <<"x", "y", ".", "p", "d", "f">>

PdfFile(name, pages) == [name |-> name, pages |-> pages]

\* The folders of PDF files (find_pdfs, in os.walk order) an upload may carry.
UploadOriginals ==
    {<<>>, <<PdfFile(NameA1, 1)>>, <<PdfFile(NameA2, MaxPages), PdfFile(NameA1, 1)>>,
     <<PdfFile(NameB, 0), PdfFile(NameA1, 1)>>}

UploadPrinters ==
    {<<>>, <<PdfFile(NameA2, MaxPages)>>, <<PdfFile(NameA1, 1), PdfFile(NameA2, MaxPages)>>,
     <<PdfFile(NameB, 0)>>}

\* app.py extract_code (proofreading_v3.py extract_code is the same).
extract_code(base_name) ==
    IF Len(base_name) >= CodeLen THEN SubSeq(base_name, 1, CodeLen) ELSE base_name

\* app.py pdf_to_image: renders page 0, whatever the page count; None on error.
pdf_to_image(pdf) ==
    IF pdf.pages >= 1 THEN <<[file |-> pdf.name, page |-> 0]>> ELSE None

SsimOutcomes == {None} \cup {<<v>> : v \in SsimValues}

\* app.py compare_images: ssim_outcome is what skimage's ssim gives on the two
\* arrays (<<>>: it raises); the result is round(max(0, min(100, s * 100)), 2).
compare_images(img1, img2, ssim_outcome) ==
    IF ssim_outcome = None THEN None
    ELSE <<Round2(Clamp(0, ssim_outcome[1], 100000))>>

\* Python truthiness of a score: None and 0.0 are false.
Truthy(score) == score # None /\ score[1] # 0

MatchingPrinterLast(printer_pdfs, code) ==
    LET idx == {j \in 1..Len(printer_pdfs) : extract_code(printer_pdfs[j].name) = code}
    IN IF idx = {} THEN None
       ELSE <<printer_pdfs[CHOOSE j \in idx : \A k \in idx : j >= k]>>

\* Lines 170-174: the first printer PDF with the same code.
MatchingPrinter(printer_pdfs, code) ==
    LET idx == {j \in 1..Len(printer_pdfs) : extract_code(printer_pdfs[j].name) = code}
    IN IF idx = {} THEN None
       ELSE <<printer_pdfs[CHOOSE j \in idx : \A k \in idx : j <= k]>>

AutoComment(score) == <<"Auto-approved (Score: %)", score[1]>>

\* Line 199: score and score >= threshold.
UploadAutoApproves(score, threshold) == Truthy(score) /\ score[1] >= threshold

\* Lines 165-204: the result built for one original PDF.
OriginalResult(original_pdf, printer_pdfs, threshold, ssim_outcome) ==
    LET code == extract_code(original_pdf.name)
        matching_printer == MatchingPrinter(printer_pdfs, code)
        original_img == pdf_to_image(original_pdf)
        printer_img == IF matching_printer # None THEN pdf_to_image(matching_printer[1]) ELSE None
        score == IF original_img # None /\ printer_img # None
                 THEN compare_images(original_img[1], printer_img[1], ssim_outcome)
                 ELSE None
        auto == UploadAutoApproves(score, threshold)
    IN [litho_code |-> code,
        filename |-> original_pdf.name,
        original_path |-> <<original_pdf>>,
        printer_path |-> matching_printer,
        score |-> score,
        matching |-> IF matching_printer # None THEN "Both" ELSE "Original only",
        validation |-> IF auto THEN "Auto-Approved" ELSE "Pending",
        comment |-> IF auto THEN AutoComment(score) ELSE <<>>,
        date |-> IF auto THEN "upload" ELSE ""]

PrinterResultScored(printer_pdf) ==
    [litho_code |-> extract_code(printer_pdf.name),
     filename |-> printer_pdf.name,
     original_path |-> None,
     printer_path |-> <<printer_pdf>>,
     score |-> <<10000>>,
     matching |-> "Printer only",
     validation |-> "Pending",
     comment |-> <<>>,
     date |-> ""]

\* Lines 207-228: the result built for a printer PDF without original.
PrinterResult(printer_pdf) ==
    [litho_code |-> extract_code(printer_pdf.name),
     filename |-> printer_pdf.name,
     original_path |-> None,
     printer_path |-> <<printer_pdf>>,
     score |-> None,
     matching |-> "Printer only",
     validation |-> "Pending",
     comment |-> <<>>,
     date |-> ""]

UploadResultsPrinterFirst(original_pdfs, printer_pdfs, threshold, ssim_of) ==
    LET processed_codes == {extract_code(original_pdfs[i].name) : i \in 1..Len(original_pdfs)}
        IsUnmatched(p) == extract_code(p.name) \notin processed_codes
        unmatched == SelectSeq(printer_pdfs, IsUnmatched)
    IN [j \in 1..Len(unmatched) |-> PrinterResult(unmatched[j])]
       \o [i \in 1..Len(original_pdfs) |->
            OriginalResult(original_pdfs[i], printer_pdfs, threshold, ssim_of[i])]

\* Lines 162-228: the pairs of one upload.
UploadResults(original_pdfs, printer_pdfs, threshold, ssim_of) ==
    LET processed_codes == {extract_code(original_pdfs[i].name) : i \in 1..Len(original_pdfs)}
        IsUnmatched(p) == extract_code(p.name) \notin processed_codes
        unmatched == SelectSeq(printer_pdfs, IsUnmatched)
    IN [i \in 1..Len(original_pdfs) |->
            OriginalResult(original_pdfs[i], printer_pdfs, threshold, ssim_of[i])]
       \o [j \in 1..Len(unmatched) |-> PrinterResult(unmatched[j])]

\* History: for each original PDF of an upload, the score compare_images had
\* before rounding (line 79), in units of 1e-5; None where none was computed.
UnroundedScores(original_pdfs, printer_pdfs, ssim_of) ==
    [i \in 1..Len(original_pdfs) |->
        LET matching_printer ==
                MatchingPrinter(printer_pdfs, extract_code(original_pdfs[i].name))
        IN IF /\ pdf_to_image(original_pdfs[i]) # None
              /\ matching_printer # None
              /\ pdf_to_image(matching_printer[1]) # None
              /\ ssim_of[i] # None
           THEN <<Clamp(0, ssim_of[i][1], 100000)>>
           ELSE None]

Thresholds == {0, 9500}

FlaskInit ==
    /\ comparison_results = <<>>
    /\ flask_log = [op |-> "start", threshold |-> 0]
    /\ uploaded = None

\* POST /upload.  comparison_results is emptied first (line 113); without any
\* PDF the handler answers 400 (line 158) and the list stays empty.
upload_files ==
    \E original_pdfs \in UploadOriginals, printer_pdfs \in UploadPrinters, threshold \in Thresholds :
      \E ssim_of \in [1..Len(original_pdfs) -> SsimOutcomes] :
        /\ comparison_results' =
             IF original_pdfs = <<>> /\ printer_pdfs = <<>> THEN <<>>
             ELSE UploadResults(original_pdfs, printer_pdfs, threshold, ssim_of)
        /\ flask_log' = [op |-> "upload", threshold |-> threshold]
        /\ uploaded' = <<original_pdfs, printer_pdfs,
                          UnroundedScores(original_pdfs, printer_pdfs, ssim_of)>>
        /\ UNCHANGED <<desktopVars, engineVars, webVars>>

UserComments == {<<>>, <<"ko">>}

\* POST /validate/<index>: an index out of range answers 400 and changes nothing.
validate_item ==
    \E index \in 0..(Len(comparison_results) - 1), approved \in BOOLEAN, comment \in UserComments :
        /\ comparison_results' =
             [comparison_results EXCEPT ![index + 1] =
                 [@ EXCEPT !.validation = IF approved THEN "Approved" ELSE "Rejected",
                           !.comment = comment,
                           !.date = "validate"]]
        /\ flask_log' = [op |-> "validate", threshold |-> 0]
        /\ UNCHANGED uploaded
        /\ UNCHANGED <<desktopVars, engineVars, webVars>>

AutoApprovesIgnoringValidation(result, threshold) ==
    Truthy(result.score) /\ result.score[1] >= threshold

\* Line 311: the condition under which auto_approve changes a result.
AutoApproves(result, threshold) ==
    /\ Truthy(result.score)
    /\ result.score[1] >= threshold
    /\ result.validation = "Pending"

\* POST /auto-approve.
auto_approve ==
    \E threshold \in Thresholds :
        /\ comparison_results' =
             [i \in 1..Len(comparison_results) |->
                 IF AutoApproves(comparison_results[i], threshold)
                 THEN [comparison_results[i] EXCEPT
                          !.validation = "Auto-Approved",
                          !.comment = AutoComment(comparison_results[i].score),
                          !.date = "auto"]
                 ELSE comparison_results[i]]
        /\ flask_log' = [op |-> "auto_approve", threshold |-> threshold]
        /\ UNCHANGED uploaded
        /\ UNCHANGED <<desktopVars, engineVars, webVars>>

\* export_csv, line 282: the 'Score (%)' cell of a result's row.
export_csv_score(result) ==
    IF Truthy(result.score) THEN result.score ELSE <<"N/A">>

FlaskNext ==
    \/ upload_files
    \/ validate_item
    \/ auto_approve

(***************************************************************************)
(* Desktop v3 (proofreading_v3.py): navigation, manual crops, validation.  *)
(* image_pairs is a sequence of [original, printer] with optional PDF      *)
(* files; list positions and pages are 0-based as in the code.             *)
(* page_validations is the set of [index, page, status] entries of the     *)
(* dict {(current_index, page): status}.                                   *)
(***************************************************************************)
ContentImage == Img(200, 200, <<50, 150>>, <<50, 150>>, FALSE, <<>>, FALSE)

\* The raster of a page of a PDF.
PageImage(pdf, page) ==
    IF extract_code(pdf.name) = extract_code(NameA1) THEN ContentImage ELSE BlankImage

\* fitz Document.load_page(page_id) for page_id < page_count: a negative
\* page_id has page_count added until it is not negative any more.
load_page(total_pages, page_id) == page_id % total_pages

\* load_pdf_image lines 1434-1437 (pdf_converter.py lines 26-29): the index of
\* the page that is rendered for the requested page_number.
RenderedPage(total_pages, page_number) ==
    load_page(total_pages, IF page_number >= total_pages THEN 0 ELSE page_number)

\* load_pdf_image: <<image or None, total pages>>; (None, 0) on error.
load_pdf_image(pdf, page_number) ==
    IF pdf.pages = 0 THEN <<None, 0>>
    ELSE <<<<PageImage(pdf, RenderedPage(pdf.pages, page_number))>>, pdf.pages>>

\* load_images lines 1181-1184: one pair per original, first printer match.
LoadedPairs(original_images, printer_images) ==
    [i \in 1..Len(original_images) |->
        [original |-> <<original_images[i]>>,
         printer |-> MatchingPrinter(printer_images, extract_code(original_images[i].name))]]

\* get_filtered_pairs: <<real_index, pair>> for the pairs the filter keeps.
RECURSIVE FilterFrom(_, _, _)
FilterFrom(pairs, i, matched_only) ==
    IF i > Len(pairs) THEN <<>>
    ELSE IF matched_only /\ ~(pairs[i].original # None /\ pairs[i].printer # None)
         THEN FilterFrom(pairs, i + 1, matched_only)
         ELSE <<<<i - 1, pairs[i]>>>> \o FilterFrom(pairs, i + 1, matched_only)

get_filtered_pairs(pairs, matched_only) == FilterFrom(pairs, 1, matched_only)

\* update_image_list: every row is rebuilt with Pending / N/A.
NewRow(pair) ==
    LET shown_file == IF pair.original # None THEN pair.original[1] ELSE pair.printer[1]
    IN [litho_code |-> extract_code(shown_file.name),
        filename |-> shown_file.name,
        matching |-> IF pair.original # None /\ pair.printer # None THEN "Both files"
                     ELSE IF pair.original # None THEN "Original only"
                     ELSE "Printer only",
        similarity |-> <<"N/A">>,
        validation |-> <<"Pending">>,
        comment |-> "",
        date |-> ""]

update_image_list(pairs, matched_only) ==
    LET fp == get_filtered_pairs(pairs, matched_only)
    IN [i \in 1..Len(fp) |-> NewRow(fp[i][2])]

IsValidated(pv, index, page) == \E e \in pv : e.index = index /\ e.page = page

StatusOf(pv, index, page) == (CHOOSE e \in pv : e.index = index /\ e.page = page).status

\* count_validated_pages / the loop of update_page_validation_status.
CountValidated(pv, index, max_pages) ==
    Cardinality({page \in 0..(max_pages - 1) : IsValidated(pv, index, page)})

\* update_page_validation_status: <<>> is the empty label of a 1-page pair,
\* otherwise <<validated_count, max_pages>>.
PageStatus(pv, index, max_pages) ==
    IF max_pages <= 1 THEN <<>> ELSE <<CountValidated(pv, index, max_pages), max_pages>>

\* What show_current_images leaves in the fields it writes, given the fields it
\* reads: index, page, filter, manual bounds, auto-crop, the list, the decisions.
show_current_images(pairs, index, page, matched_only, mb_original, mb_printer, auto_crop, lb, pv) ==
    LET fp == get_filtered_pairs(pairs, matched_only)
    IN IF fp = <<>>
       THEN [current_index |-> index,
             total_pages_original |-> total_pages_original,
             total_pages_printer |-> total_pages_printer,
             current_original_img |-> current_original_img,
             current_printer_img |-> current_printer_img,
             last_detection |-> last_detection,
             page_status_label |-> page_status_label,
             listbox |-> lb,
             shown |-> shown]
       ELSE
         LET idx == IF index >= Len(fp) THEN 0 ELSE index
             real_index == fp[idx + 1][1]
             pair == fp[idx + 1][2]
             lo == IF pair.original # None THEN load_pdf_image(pair.original[1], page) ELSE <<None, 1>>
             lp == IF pair.printer # None THEN load_pdf_image(pair.printer[1], page) ELSE <<None, 1>>
             tpo == IF lo[1] # None THEN lo[2] ELSE 1
             tpp == IF lp[1] # None THEN lp[2] ELSE 1
             max_pages == Max(tpo, tpp)
             both == lo[1] # None /\ lp[1] # None
         IN [current_index |-> idx,
             total_pages_original |-> tpo,
             total_pages_printer |-> tpp,
             current_original_img |-> lo[1],
             current_printer_img |-> lp[1],
             last_detection |->
                 IF both
                 THEN <<LastDetection(lo[1][1], lp[1][1], mb_original, mb_printer, auto_crop)>>
                 ELSE last_detection,
             page_status_label |-> PageStatus(pv, idx, max_pages),
             listbox |->
                 IF both
                 THEN [lb EXCEPT ![idx + 1].similarity =
                          IF max_pages > 1 THEN <<"pct", page + 1>> ELSE <<"pct">>]
                 ELSE lb,
             shown |-> <<real_index, page>>]

\* The fields show_current_images writes take the values of record r.
Displayed(r) ==
    /\ current_index' = r.current_index
    /\ total_pages_original' = r.total_pages_original
    /\ total_pages_printer' = r.total_pages_printer
    /\ current_original_img' = r.current_original_img
    /\ current_printer_img' = r.current_printer_img
    /\ last_detection' = r.last_detection
    /\ page_status_label' = r.page_status_label
    /\ listbox' = r.listbox
    /\ shown' = r.shown

\* History: whether the last change of the displayed (pair, page) happened while
\* a manual crop was set.
Moved(new_shown) ==
    moved_with_crop' =
        IF new_shown # shown
        THEN (manual_bounds_original # None \/ manual_bounds_printer # None)
        ELSE moved_with_crop

NoBoundsSet == [original |-> None, printer |-> None]

get_max_pages == Max(total_pages_original, total_pages_printer)

DesktopInit ==
    /\ original_folder = None
    /\ printer_folder = None
    /\ startup_mode = TRUE
    /\ image_pairs = <<>>
    /\ current_index = 0
    /\ current_page = 0
    /\ show_only_matched = FALSE
    /\ auto_crop_enabled = TRUE
    /\ manual_bounds_original = None
    /\ manual_bounds_printer = None
    /\ last_detection = None
    /\ current_original_img = None
    /\ current_printer_img = None
    /\ total_pages_original = 1
    /\ total_pages_printer = 1
    /\ page_validations = {}
    /\ listbox = <<>>
    /\ page_status_label = <<>>
    /\ shown = None
    /\ bounds_set_at = NoBoundsSet
    /\ decided = {}
    /\ moved_with_crop = FALSE
    /\ cancel_log = None

\* The <<originals folder, printer folder>> selections of the start screen, each
\* folder in find_images order.
SelectedFolders ==
    {<<<<PdfFile(NameA2, MaxPages)>>, <<PdfFile(NameA2, 2)>>>>,
     <<<<PdfFile(NameB, 1), PdfFile(NameA1, 1)>>, <<PdfFile(NameA2, 2)>>>>,
     <<<<PdfFile(NameA1, 1)>>, <<PdfFile(NameB, 1)>>>>,
     <<<<PdfFile(NameB, 1)>>, <<PdfFile(NameB, 0)>>>>}

\* start_analysis: setup_main_ui, then load_images.
start_analysis ==
    /\ startup_mode
    /\ \E folders \in SelectedFolders :
         LET pairs == LoadedPairs(folders[1], folders[2])
             lb == update_image_list(pairs, show_only_matched)
             r == show_current_images(pairs, current_index, current_page, show_only_matched,
                                      manual_bounds_original, manual_bounds_printer,
                                      auto_crop_enabled, lb, page_validations)
         IN /\ original_folder' = folders[1]
            /\ printer_folder' = folders[2]
            /\ image_pairs' = pairs
            /\ Displayed(r)
            /\ Moved(r.shown)
    /\ startup_mode' = FALSE
    /\ UNCHANGED <<current_page, show_only_matched, auto_crop_enabled,
                   manual_bounds_original, manual_bounds_printer, page_validations,
                   bounds_set_at, decided>>
    /\ UNCHANGED <<flaskVars, engineVars, webVars, cancel_log>>

\* back_to_startup (lines 1096-1108); the main window's widgets are destroyed.
back_to_startup ==
    /\ ~startup_mode
    /\ original_folder' = None
    /\ printer_folder' = None
    /\ startup_mode' = TRUE
    /\ image_pairs' = <<>>
    /\ current_index' = 0
    /\ current_page' = 0
    /\ show_only_matched' = FALSE
    /\ manual_bounds_original' = None
    /\ manual_bounds_printer' = None
    /\ page_validations' = {}
    /\ listbox' = <<>>
    /\ page_status_label' = <<>>
    /\ shown' = None
    /\ Moved(None)
    /\ bounds_set_at' = NoBoundsSet
    /\ decided' = {}
    /\ UNCHANGED <<auto_crop_enabled, last_detection, current_original_img,
                   current_printer_img, total_pages_original, total_pages_printer>>
    /\ UNCHANGED <<flaskVars, engineVars, webVars, cancel_log>>

\* A handler that moves to (index, page), clears the manual crops and redraws.
MoveTo(index, page, matched_only, lb, pv) ==
    LET r == show_current_images(image_pairs, index, page, matched_only,
                                 None, None, auto_crop_enabled, lb, pv)
    IN /\ current_page' = page
       /\ manual_bounds_original' = None
       /\ manual_bounds_printer' = None
       /\ bounds_set_at' = NoBoundsSet
       /\ Displayed(r)
       /\ Moved(r.shown)

show_previous_page_keeping_crops ==
    /\ ~startup_mode
    /\ current_page > 0
    /\ LET r == show_current_images(image_pairs, current_index, current_page - 1,
                                    show_only_matched, manual_bounds_original,
                                    manual_bounds_printer, auto_crop_enabled,
                                    listbox, page_validations)
       IN /\ current_page' = current_page - 1
          /\ Displayed(r)
          /\ Moved(r.shown)
    /\ UNCHANGED <<startup_mode, image_pairs, show_only_matched, auto_crop_enabled,
                   manual_bounds_original, manual_bounds_printer, bounds_set_at,
                   page_validations, decided>>
    /\ UNCHANGED <<folderVars, flaskVars, engineVars, webVars, cancel_log>>

show_previous_page ==
    /\ ~startup_mode
    /\ current_page > 0
    /\ MoveTo(current_index, current_page - 1, show_only_matched, listbox, page_validations)
    /\ UNCHANGED <<startup_mode, image_pairs, show_only_matched, auto_crop_enabled,
                   page_validations, decided>>
    /\ UNCHANGED <<folderVars, flaskVars, engineVars, webVars, cancel_log>>

show_next_page_off_by_one ==
    /\ ~startup_mode
    /\ current_page < get_max_pages
    /\ MoveTo(current_index, current_page + 1, show_only_matched, listbox, page_validations)
    /\ UNCHANGED <<startup_mode, image_pairs, show_only_matched, auto_crop_enabled,
                   page_validations, decided>>
    /\ UNCHANGED <<folderVars, flaskVars, engineVars, webVars, cancel_log>>

show_next_page ==
    /\ ~startup_mode
    /\ current_page < get_max_pages - 1
    /\ MoveTo(current_index, current_page + 1, show_only_matched, listbox, page_validations)
    /\ UNCHANGED <<startup_mode, image_pairs, show_only_matched, auto_crop_enabled,
                   page_validations, decided>>
    /\ UNCHANGED <<folderVars, flaskVars, engineVars, webVars, cancel_log>>

show_previous ==
    /\ ~startup_mode
    /\ current_index > 0
    /\ MoveTo(current_index - 1, 0, show_only_matched, listbox, page_validations)
    /\ UNCHANGED <<startup_mode, image_pairs, show_only_matched, auto_crop_enabled,
                   page_validations, decided>>
    /\ UNCHANGED <<folderVars, flaskVars, engineVars, webVars, cancel_log>>

show_next ==
    /\ ~startup_mode
    /\ current_index < Len(get_filtered_pairs(image_pairs, show_only_matched)) - 1
    /\ MoveTo(current_index + 1, 0, show_only_matched, listbox, page_validations)
    /\ UNCHANGED <<startup_mode, image_pairs, show_only_matched, auto_crop_enabled,
                   page_validations, decided>>
    /\ UNCHANGED <<folderVars, flaskVars, engineVars, webVars, cancel_log>>

\* on_listbox_select: a row other than the current one is selected.
on_listbox_select ==
    /\ ~startup_mode
    /\ \E new_index \in 0..(Len(listbox) - 1) :
         /\ new_index # current_index
         /\ MoveTo(new_index, 0, show_only_matched, listbox, page_validations)
    /\ UNCHANGED <<startup_mode, image_pairs, show_only_matched, auto_crop_enabled,
                   page_validations, decided>>
    /\ UNCHANGED <<folderVars, flaskVars, engineVars, webVars, cancel_log>>

\* toggle_filter (set_filter_mode calls it when the mode differs).
toggle_filter ==
    /\ ~startup_mode
    /\ show_only_matched' = ~show_only_matched
    /\ MoveTo(0, 0, ~show_only_matched,
              update_image_list(image_pairs, ~show_only_matched), page_validations)
    /\ UNCHANGED <<startup_mode, image_pairs, auto_crop_enabled, page_validations, decided>>
    /\ UNCHANGED <<folderVars, flaskVars, engineVars, webVars, cancel_log>>

\* toggle_auto_detection.
toggle_auto_detection ==
    /\ ~startup_mode
    /\ auto_crop_enabled' = ~auto_crop_enabled
    /\ LET r == show_current_images(image_pairs, current_index, current_page,
                                    show_only_matched, manual_bounds_original,
                                    manual_bounds_printer, ~auto_crop_enabled,
                                    listbox, page_validations)
       IN Displayed(r) /\ Moved(r.shown)
    /\ UNCHANGED <<startup_mode, image_pairs, current_page, show_only_matched,
                   manual_bounds_original, manual_bounds_printer, bounds_set_at,
                   page_validations, decided>>
    /\ UNCHANGED <<folderVars, flaskVars, engineVars, webVars, cancel_log>>

\* CropDialog.result after validate: the rectangle drawn, in image coordinates
\* (use_full gives a rectangle too; cancel gives None and open_crop_dialog then
\* changes nothing).
DialogResults(img) == ManualRects

\* open_crop_dialog(which_image) with a dialog that returns a rectangle.
open_crop_dialog ==
    /\ ~startup_mode
    /\ \E which_image \in {"original", "printer"} :
         LET img == IF which_image = "original" THEN current_original_img
                    ELSE current_printer_img
         IN /\ img # None
            /\ \E result \in DialogResults(img[1]) :
                 LET mbo == IF which_image = "original" THEN result ELSE manual_bounds_original
                     mbp == IF which_image = "original" THEN manual_bounds_printer ELSE result
                     r == show_current_images(image_pairs, current_index, current_page,
                                              show_only_matched, mbo, mbp,
                                              auto_crop_enabled, listbox, page_validations)
                 IN /\ manual_bounds_original' = mbo
                    /\ manual_bounds_printer' = mbp
                    /\ bounds_set_at' = [bounds_set_at EXCEPT ![which_image] = <<shown>>]
                    /\ Displayed(r)
                    /\ Moved(r.shown)
    /\ UNCHANGED <<startup_mode, image_pairs, current_page, show_only_matched,
                   auto_crop_enabled, page_validations, decided>>
    /\ UNCHANGED <<folderVars, flaskVars, engineVars, webVars, cancel_log>>

\* reset_manual_crops.
reset_manual_crops ==
    /\ ~startup_mode
    /\ manual_bounds_original' = None
    /\ manual_bounds_printer' = None
    /\ bounds_set_at' = NoBoundsSet
    /\ LET r == show_current_images(image_pairs, current_index, current_page,
                                    show_only_matched, None, None,
                                    auto_crop_enabled, listbox, page_validations)
       IN Displayed(r) /\ Moved(r.shown)
    /\ UNCHANGED <<startup_mode, image_pairs, current_page, show_only_matched,
                   auto_crop_enabled, page_validations, decided>>
    /\ UNCHANGED <<folderVars, flaskVars, engineVars, webVars, cancel_log>>

RejectComments == {"smudge"}

\* Lines 1568-1588: the pair status written to the list row:
\* <<"Approved">>, <<"Rejected">> or <<"Pending", validated, max_pages>>.
GlobalStatusAnyApproved(pv, index, max_pages) ==
    LET all_pages_validated == \A page \in 0..(max_pages - 1) : IsValidated(pv, index, page)
        any_approved == \E page \in 0..(max_pages - 1) :
                            IsValidated(pv, index, page) /\ StatusOf(pv, index, page) = "Approved"
    IN IF all_pages_validated
       THEN (IF any_approved THEN <<"Approved">> ELSE <<"Rejected">>)
       ELSE <<"Pending", CountValidated(pv, index, max_pages), max_pages>>

GlobalStatus(pv, index, max_pages) ==
    LET all_pages_validated == \A page \in 0..(max_pages - 1) : IsValidated(pv, index, page)
        any_rejected == \E page \in 0..(max_pages - 1) :
                            IsValidated(pv, index, page) /\ StatusOf(pv, index, page) = "Rejected"
    IN IF all_pages_validated
       THEN (IF any_rejected THEN <<"Rejected">> ELSE <<"Approved">>)
       ELSE <<"Pending", CountValidated(pv, index, max_pages), max_pages>>

\* page_validations[(index, page)] = status.
Record(pv, index, page, status) ==
    {e \in pv : ~(e.index = index /\ e.page = page)}
    \cup {[index |-> index, page |-> page, status |-> status]}

\* validate_image(approved) once the status and comment are known: approved, or
\* rejected with the comment entered in the dialog.
Validate(validation_status, comment) ==
    LET fp == get_filtered_pairs(image_pairs, show_only_matched)
        max_pages == get_max_pages
        pv == Record(page_validations, current_index, current_page, validation_status)
        all_pages_validated ==
            \A page \in 0..(max_pages - 1) : IsValidated(pv, current_index, page)
        lb == [listbox EXCEPT ![current_index + 1] =
                  [@ EXCEPT !.validation = GlobalStatus(pv, current_index, max_pages),
                            !.comment = comment,
                            !.date = "now"]]
        unvalidated == {page \in 0..(max_pages - 1) : ~IsValidated(pv, current_index, page)}
    IN /\ fp # <<>>
       /\ page_validations' = pv
       /\ decided' = decided \cup {[pair |-> fp[current_index + 1][1], page |-> current_page]}
       /\ IF max_pages > 1 /\ current_page < max_pages - 1
          THEN \* show_next_page()
               MoveTo(current_index, current_page + 1, show_only_matched, lb, pv)
          ELSE IF all_pages_validated
          THEN \* show_next()
               IF current_index < Len(fp) - 1
               THEN MoveTo(current_index + 1, 0, show_only_matched, lb, pv)
               ELSE /\ listbox' = lb
                    /\ page_status_label' = PageStatus(pv, current_index, max_pages)
                    /\ UNCHANGED <<current_index, current_page, manual_bounds_original,
                                   manual_bounds_printer, bounds_set_at, last_detection,
                                   current_original_img, current_printer_img,
                                   total_pages_original, total_pages_printer,
                                   shown, moved_with_crop>>
          ELSE \* go_to_first_unvalidated_page()
               MoveTo(current_index,
                      CHOOSE page \in unvalidated : \A q \in unvalidated : page <= q,
                      show_only_matched, lb, pv)
       /\ UNCHANGED <<startup_mode, image_pairs, show_only_matched, auto_crop_enabled>>
       /\ UNCHANGED <<folderVars, flaskVars, engineVars, webVars, cancel_log>>

\* validate_image(True), validate_image(False) with a comment entered.  When the
\* reject dialog is cancelled (comment is None) the handler returns at line 1560
\* and nothing changes.
validate_image ==
    /\ ~startup_mode
    /\ \/ Validate("Approved", "")
       \/ \E comment \in RejectComments : Validate("Rejected", comment)

validate_image_cancelled_recording ==
    /\ ~startup_mode
    /\ get_filtered_pairs(image_pairs, show_only_matched) # <<>>
    /\ page_validations' = Record(page_validations, current_index, current_page, "Rejected")
    /\ cancel_log' = <<(<<page_validations', listbox, current_index, current_page>>
                            = <<page_validations, listbox, current_index, current_page>>)>>
    /\ UNCHANGED <<startup_mode, image_pairs, current_index, current_page,
                   show_only_matched, auto_crop_enabled, manual_bounds_original,
                   manual_bounds_printer, last_detection, current_original_img,
                   current_printer_img, total_pages_original, total_pages_printer,
                   listbox, page_status_label,
                   shown, bounds_set_at, decided, moved_with_crop>>
    /\ UNCHANGED <<folderVars, flaskVars, engineVars, webVars>>

\* validate_image(False) when the reject dialog is cancelled: askstring gives
\* None and the handler returns at line 1560, before anything is written.
\* cancel_log records whether page_validations, the list, current_index and
\* current_page are after the handler what they were before it.  The step
\* changes no variable of the program, so only the specification that
\* observes it takes it.
validate_image_cancelled ==
    /\ ~startup_mode
    /\ get_filtered_pairs(image_pairs, show_only_matched) # <<>>
    /\ page_validations' = page_validations
    /\ listbox' = listbox
    /\ current_index' = current_index
    /\ current_page' = current_page
    /\ cancel_log' = <<(<<page_validations', listbox', current_index', current_page'>>
                            = <<page_validations, listbox, current_index, current_page>>)>>
    /\ UNCHANGED <<startup_mode, image_pairs,
                   show_only_matched, auto_crop_enabled, manual_bounds_original,
                   manual_bounds_printer, last_detection, current_original_img,
                   current_printer_img, total_pages_original, total_pages_printer,
                   page_status_label,
                   shown, bounds_set_at, decided, moved_with_crop>>
    /\ UNCHANGED <<folderVars, flaskVars, engineVars, webVars>>

DesktopNext ==
    \/ start_analysis
    \/ back_to_startup
    \/ show_previous_page
    \/ show_next_page
    \/ show_previous
    \/ show_next
    \/ on_listbox_select
    \/ toggle_filter
    \/ toggle_auto_detection
    \/ open_crop_dialog
    \/ reset_manual_crops
    \/ validate_image

(***************************************************************************)
(* The scorers called on a pair of images in both orders.                  *)
(* skimage's structural_similarity(x, y, data_range) is the library's: it  *)
(* is a function of its arguments, symmetric in x and y.  Two calls with   *)
(* the same arguments up to the order of x and y return the same value;    *)
(* nothing else relates the values of two calls.  Each behaviour is one    *)
(* experiment: a scorer applied once to a pair, in both orders.             *)
(***************************************************************************)
SameCall(c1, c2) ==
    \/ c1 = c2
    \/ c1.x = c2.y /\ c1.y = c2.x /\ c1.data_range = c2.data_range

\* A rendered page as compare_images reads it: its pixels, its size and the
\* range max - min of its grey levels.
PageSizes == {<<1190, 1684>>, <<1684, 1190>>, <<600, 400>>}

GreyRanges == {100, 255}

FlaskImages ==
    {[pixels |-> p, size |-> s, range |-> r] :
        p \in {"p", "q"}, s \in PageSizes, r \in GreyRanges}

\* app.py compare_images, lines 63-78: the arguments of the ssim call.  Both
\* images are reduced to fit 800x800, img2 is resized to img1's size, and
\* data_range is taken from gray2.
FlaskSsimCall(img1, img2) ==
    LET size1 == thumbnail(img1.size, TargetSize)
    IN [x |-> [pixels |-> img1.pixels, size |-> size1],
        y |-> [pixels |-> img2.pixels, size |-> size1],
        data_range |-> img2.range]

\* compare_images(A, B) and compare_images(B, A).
compare_images_both_ways ==
    /\ both_ways = None
    /\ \E a \in FlaskImages, b \in FlaskImages, s_ab \in SsimOutcomes, s_ba \in SsimOutcomes :
         /\ SameCall(FlaskSsimCall(a, b), FlaskSsimCall(b, a)) => s_ab = s_ba
         /\ both_ways' = [scorer |-> "flask", a |-> a, b |-> b,
                          ab |-> compare_images(a, b, s_ab),
                          ba |-> compare_images(b, a, s_ba)]
    /\ UNCHANGED <<desktopVars, flaskVars, engine_pc, detection, similarity_score,
                   web_result, resized, webVars>>

\* ssim_calculator.py calculate_similarity, lines 132-142: the arguments of
\* the ssim call are the two normalised images; data_range is the default
\* of the uint8 arrays.
WebSsimCall(img1, img2, auto_crop) ==
    LET r == web_calculate_similarity(<<img1>>, <<img2>>, auto_crop, 0)
        n == web_resized(<<img1>>, <<img2>>, auto_crop)
    IN [x |-> [pixels |-> img1,
               crop |-> IF r.method = "threshold" THEN r.bounds1 ELSE None,
               resized |-> n[1]],
        y |-> [pixels |-> img2,
               crop |-> IF r.method = "threshold" THEN r.bounds2 ELSE None,
               resized |-> n[2]],
        data_range |-> 255]

\* Web calculate_similarity on (A, B) and on (B, A).
web_calculate_similarity_both_ways ==
    /\ both_ways = None
    /\ \E a \in Images, b \in Images, s_ab \in SsimValues, s_ba \in SsimValues :
         /\ SameCall(WebSsimCall(a, b, auto_crop_enabled),
                     WebSsimCall(b, a, auto_crop_enabled)) => s_ab = s_ba
         /\ both_ways' =
              [scorer |-> "web", a |-> a, b |-> b,
               ab |-> <<web_calculate_similarity(<<a>>, <<b>>, auto_crop_enabled, s_ab).similarity>>,
               ba |-> <<web_calculate_similarity(<<b>>, <<a>>, auto_crop_enabled, s_ba).similarity>>]
    /\ UNCHANGED <<desktopVars, flaskVars, engine_pc, detection, similarity_score,
                   web_result, resized, webVars>>

\* proofreading_v3.py calculate_similarity, lines 855-867: img1 is cropped to
\* bounds1, img2 to bounds2, both are normalised; default data_range.
DesktopSsimCall(img1, img2) ==
    LET d == LastDetection(img1, img2, manual_bounds_original, manual_bounds_printer,
                           auto_crop_enabled)
    IN [x |-> [pixels |-> img1, crop |-> d.bounds1,
               resized |-> resize_preserve_aspect(CropSize(d.bounds1), TargetSize)],
        y |-> [pixels |-> img2, crop |-> d.bounds2,
               resized |-> resize_preserve_aspect(CropSize(d.bounds2), TargetSize)],
        data_range |-> 255]

\* Desktop calculate_similarity on (A, B) and on (B, A), in one state of the
\* comparator.
calculate_similarity_both_ways ==
    /\ both_ways = None
    /\ \E a \in Images, b \in Images, s_ab \in SsimValues, s_ba \in SsimValues :
         /\ SameCall(DesktopSsimCall(a, b), DesktopSsimCall(b, a)) => s_ab = s_ba
         /\ both_ways' = [scorer |-> "desktop", a |-> a, b |-> b,
                          ab |-> <<Clamp(0, s_ab, 100000)>>,
                          ba |-> <<Clamp(0, s_ba, 100000)>>]
    /\ UNCHANGED <<desktopVars, flaskVars, engine_pc, detection, similarity_score,
                   web_result, resized, webVars>>

SymmetryNext ==
    \/ compare_images_both_ways
    \/ web_calculate_similarity_both_ways
    \/ calculate_similarity_both_ways

(***************************************************************************)
(* Page rendering called as a function: the web backend's /api/convert     *)
(* (main.py convert_pdf -> pdf_converter.pdf_to_image) and the desktop's   *)
(* load_pdf_image, on a PDF and a requested page index.                    *)
(***************************************************************************)
\* quota_service.py QUOTA_LIMITS; an unknown tier gets the 'free' limit.
QUOTA_LIMITS(tier) ==
    CASE tier = "anonymous" -> 1
      [] tier = "free" -> 5
      [] tier = "pro" -> 100
      [] tier = "enterprise" -> 999999
      [] OTHER -> 5

\* The quota documents: one signed-in user and one anonymous client
\* (uid "anon_<sha256 of the IP>").
Uids == {"u1", "anon"}

\* The days (get_today_string) a behaviour goes through.
MaxDays == 2

\* The /api/compare requests made in one day.
MaxRequests == 7

WebInit ==
    /\ rendered = None
    /\ today = 1
    /\ quotas = [uid \in Uids |-> None]
    /\ get_quota_pending = None
    /\ compare_response = None
    /\ granted = [uid \in Uids |-> 0]
    /\ requests = 0
    /\ user_doc = None
    /\ subscription = None
    /\ webhook_log = None

\* The page indices a request may carry (ConvertRequest.page is any int):
\* negative ones, the first page, the last page of the longest PDF (the page
\* count of a shorter one) and one past every PDF.
PageRequests == {0 - MaxPages - 1, 0 - 1, 0, MaxPages - 1, MaxPages + 1}

RenderPdfs == {PdfFile(n, p) : n \in {NameA1, NameA2, NameB}, p \in 0..MaxPages}

\* pdf_converter.py pdf_to_image: <<rendered page or None, total pages>>;
\* (None, 0) on error.
web_pdf_to_image(pdf, page_number) ==
    IF pdf.pages = 0 THEN <<None, 0>>
    ELSE <<<<RenderedPage(pdf.pages, page_number)>>, pdf.pages>>

\* main.py convert_pdf.
convert_pdf ==
    /\ \E pdf \in RenderPdfs, page \in PageRequests :
         LET r == web_pdf_to_image(pdf, page)
         IN rendered' = [by |-> "pdf_to_image", pdf |-> pdf, requested |-> page,
                         success |-> r[1] # None,
                         page |-> r[1], total_pages |-> r[2]]
    /\ UNCHANGED <<desktopVars, flaskVars, engineVars, quotaVars, stripeVars>>

\* proofreading_v3.py load_pdf_image(pdf_path, page_number).
load_pdf_image_call ==
    /\ \E pdf \in RenderPdfs, page \in PageRequests :
         LET r == load_pdf_image(pdf, page)
         IN rendered' = [by |-> "load_pdf_image", pdf |-> pdf, requested |-> page,
                         success |-> r[1] # None,
                         page |-> IF r[1] = None THEN None
                                  ELSE <<RenderedPage(pdf.pages, page)>>,
                         total_pages |-> r[2]]
    /\ UNCHANGED <<desktopVars, flaskVars, engineVars, quotaVars, stripeVars>>

(***************************************************************************)
(* Subscriptions (stripe_service.py, main.py /api/stripe/webhook).         *)
(* user_doc is the Firestore document users/u1: None when it does not      *)
(* exist, else its fields tier, subscriptionStatus, stripeSubscriptionId.  *)
(* subscription is the subscription as Stripe holds it (its status), what  *)
(* stripe.Subscription.retrieve returns and what the subscription events   *)
(* carry.  webhook_log is the last event handled and the document before.  *)
(***************************************************************************)
SubscriptionStatuses == {"active", "trialing", "past_due", "unpaid", "canceled"}

\* quota_service.py get_user_tier of the signed-in user.
get_user_tier == IF user_doc # None THEN user_doc[1].tier ELSE "free"

\* user_ref.set(fields, merge=True) on a document that may not exist.
MergeSet(doc, tier, status, subscription_id) ==
    <<[tier |-> tier, subscriptionStatus |-> status,
       stripeSubscriptionId |-> subscription_id]>>

DocSubscriptionId(doc) == IF doc # None THEN doc[1].stripeSubscriptionId ELSE None

\* handle_subscription_updated(subscription): the document after.
subscription_updated(doc, status) ==
    MergeSet(doc, IF status \in {"active", "trialing"} THEN "pro" ELSE "free",
             status, DocSubscriptionId(doc))

\* Stripe: a checkout creates the subscription, later its status changes
\* (a failed payment makes it past_due, then unpaid or canceled).
stripe_status_change ==
    /\ subscription # None
    /\ \E status \in SubscriptionStatuses :
         /\ status # subscription[1]
         /\ subscription' = <<status>>
    /\ UNCHANGED <<desktopVars, flaskVars, engineVars, rendered, quotaVars,
                   user_doc, webhook_log>>

\* checkout.session.completed -> handle_checkout_completed.
handle_checkout_completed ==
    /\ \E status \in {"active", "trialing"} :
         /\ subscription' = <<status>>
         /\ user_doc' = MergeSet(user_doc, "pro", status, <<"sub_1">>)
    /\ webhook_log' = [type |-> "checkout.session.completed", before |-> user_doc]
    /\ UNCHANGED <<desktopVars, flaskVars, engineVars, rendered, quotaVars>>

\* customer.subscription.created / updated -> handle_subscription_updated;
\* without a user for the event nothing is written.
handle_subscription_updated ==
    /\ subscription # None
    /\ \E user_found \in BOOLEAN :
         user_doc' = IF user_found THEN subscription_updated(user_doc, subscription[1])
                     ELSE user_doc
    /\ webhook_log' = [type |-> "customer.subscription.updated", before |-> user_doc]
    /\ UNCHANGED <<desktopVars, flaskVars, engineVars, rendered, quotaVars, subscription>>

\* customer.subscription.deleted -> handle_subscription_deleted.
handle_subscription_deleted ==
    /\ subscription # None
    /\ subscription' = <<"canceled">>
    /\ user_doc' = MergeSet(user_doc, "free", "canceled", None)
    /\ webhook_log' = [type |-> "customer.subscription.deleted", before |-> user_doc]
    /\ UNCHANGED <<desktopVars, flaskVars, engineVars, rendered, quotaVars>>

\* invoice.payment_failed -> handle_invoice_payment_failed: the invoice's
\* subscription is retrieved and handed to handle_subscription_updated; an
\* invoice without subscription, or a failing retrieve, writes nothing.
handle_invoice_payment_failed ==
    /\ subscription # None
    /\ \E has_subscription \in BOOLEAN, retrieved \in BOOLEAN :
         user_doc' = IF has_subscription /\ retrieved
                     THEN subscription_updated(user_doc, subscription[1])
                     ELSE user_doc
    /\ webhook_log' = [type |-> "invoice.payment_failed", before |-> user_doc]
    /\ UNCHANGED <<desktopVars, flaskVars, engineVars, rendered, quotaVars, subscription>>

\* main.py stripe_webhook: the dispatch on the event type.
stripe_webhook ==
    \/ handle_checkout_completed
    \/ handle_subscription_updated
    \/ handle_subscription_deleted
    \/ handle_invoice_payment_failed

StripeNext ==
    \/ stripe_status_change
    \/ stripe_webhook

(***************************************************************************)
(* Quota (quota_service.py, main.py /api/compare and /api/quota).          *)
(* quotas[uid] is the Firestore document quotas/<uid>: None when it does   *)
(* not exist, else [comparisons, lastReset].  The transaction of           *)
(* check_and_increment_quota is one step; get_quota reads the document and *)
(* writes it in two separate Firestore operations, other requests may run  *)
(* in between.  granted[uid] counts the successful                         *)
(* check_and_increment_quota calls of the current day.                     *)
(***************************************************************************)
TierOf(uid) == IF uid = "anon" THEN "anonymous" ELSE get_user_tier

check_and_increment_counting_twice(doc, today_string, limit) ==
    IF doc # None /\ doc[1].lastReset = today_string /\ doc[1].comparisons < limit
    THEN <<TRUE, doc[1].comparisons + 2,
           <<[doc[1] EXCEPT !.comparisons = doc[1].comparisons + 2]>> >>
    ELSE IF doc # None /\ doc[1].lastReset = today_string
    THEN <<FALSE, doc[1].comparisons, doc>>
    ELSE <<TRUE, 1, <<[comparisons |-> 1, lastReset |-> today_string]>> >>

\* _check_and_increment_in_transaction: <<success, used, document after>>.
check_and_increment_in_transaction(doc, today_string, limit) ==
    IF doc # None
    THEN IF doc[1].lastReset # today_string
         THEN <<TRUE, 1, <<[comparisons |-> 1, lastReset |-> today_string]>> >>
         ELSE IF doc[1].comparisons >= limit
              THEN <<FALSE, doc[1].comparisons, doc>>
              ELSE <<TRUE, doc[1].comparisons + 1,
                     <<[doc[1] EXCEPT !.comparisons = doc[1].comparisons + 1]>> >>
    ELSE <<TRUE, 1, <<[comparisons |-> 1, lastReset |-> today_string]>> >>

\* _build_quota_info without resetsAt.
build_quota_info(used, tier) ==
    [used |-> used, limit |-> QUOTA_LIMITS(tier),
     remaining |-> Max(0, QUOTA_LIMITS(tier) - used)]

\* What the comparison of an admitted /api/compare request does: a result,
\* the 'error' result of calculate_similarity, or an exception (HTTP 500).
CompareOutcomes == {"ok", "error", "exception"}

\* main.py compare_images (/api/compare) for the client uid.
api_compare ==
    /\ requests < MaxRequests
    /\ requests' = requests + 1
    /\ \E uid \in Uids, outcome \in CompareOutcomes :
         LET r == check_and_increment_in_transaction(quotas[uid], today,
                                                     QUOTA_LIMITS(TierOf(uid)))
         IN /\ quotas' = [quotas EXCEPT ![uid] = r[3]]
            /\ granted' = [granted EXCEPT ![uid] = IF r[1] THEN @ + 1 ELSE @]
            /\ compare_response' =
                 [uid |-> uid,
                  status |-> IF ~r[1] THEN 429
                             ELSE IF outcome = "exception" THEN 500 ELSE 200,
                  success |-> r[1] /\ outcome # "exception",
                  method |-> IF r[1] /\ outcome = "error" THEN "error" ELSE "full",
                  quota |-> build_quota_info(r[2], TierOf(uid)),
                  today |-> today,
                  before |-> quotas[uid],
                  after |-> r[3]]
    /\ UNCHANGED <<desktopVars, flaskVars, engineVars, stripeVars, rendered, today, get_quota_pending>>

\* get_quota (GET /api/quota), lines 65-69: today is taken and the document
\* is read.
get_quota_read ==
    /\ get_quota_pending = None
    /\ get_quota_pending' = <<[uid |-> "u1", today |-> today, quota_doc |-> quotas["u1"]]>>
    /\ UNCHANGED <<desktopVars, flaskVars, engineVars, stripeVars, rendered, today, quotas,
                   compare_response, granted, requests>>

\* get_quota, lines 71-91: the document is set to 0 when the document read
\* does not exist or is of another day.
get_quota_write ==
    /\ get_quota_pending # None
    /\ LET p == get_quota_pending[1]
       IN quotas' =
            IF p.quota_doc = None \/ p.quota_doc[1].lastReset # p.today
            THEN [quotas EXCEPT ![p.uid] = <<[comparisons |-> 0, lastReset |-> p.today]>>]
            ELSE quotas
    /\ get_quota_pending' = None
    /\ UNCHANGED <<desktopVars, flaskVars, engineVars, stripeVars, rendered, today,
                   compare_response, granted, requests>>

\* Midnight UTC.
day_change ==
    /\ today < MaxDays
    /\ today' = today + 1
    /\ granted' = [uid \in Uids |-> 0]
    /\ requests' = 0
    /\ UNCHANGED <<desktopVars, flaskVars, engineVars, stripeVars, rendered, quotas,
                   get_quota_pending, compare_response>>

ApiNext ==
    \/ api_compare
    \/ convert_pdf
    \/ day_change

QuotaNext ==
    \/ api_compare
    \/ get_quota_read
    \/ get_quota_write
    \/ day_change

RenderNext ==
    \/ convert_pdf
    \/ load_pdf_image_call

(***************************************************************************)
(* Specifications.                                                         *)
(***************************************************************************)
EngineIdle ==
    /\ engine_pc = "idle"
    /\ detection = None
    /\ similarity_score = None
    /\ web_result = None
    /\ resized = None
    /\ both_ways = None

\* Both applications just started, no engine call in progress.
Init == DesktopInit /\ FlaskInit /\ EngineIdle /\ WebInit

\* The desktop application from its start screen.
SpecDesktop == Init /\ [][DesktopNext]_vars

\* The desktop application used without the "matched only" filter.
ReviewNext ==
    \/ start_analysis
    \/ show_previous_page
    \/ show_next_page
    \/ show_previous
    \/ show_next
    \/ on_listbox_select
    \/ validate_image
    \/ validate_image_cancelled

SpecReview == Init /\ [][ReviewNext]_vars

\* The Flask application.
SpecFlask == Init /\ [][FlaskNext]_vars

\* The pair resolvers alone: folders selected and analysed on the desktop,
\* folders uploaded to the Flask application.
PairingNext ==
    \/ start_analysis
    \/ back_to_startup
    \/ upload_files

SpecPairing == Init /\ [][PairingNext]_vars

\* Scores of one-sided pairs: uploads and auto-approval in the Flask
\* application, analysis, pair navigation and the filter on the desktop.
OneSidedNext ==
    \/ upload_files
    \/ auto_approve
    \/ start_analysis
    \/ show_previous
    \/ show_next
    \/ toggle_filter

SpecOneSided == Init /\ [][OneSidedNext]_vars

\* The three scorers, each applied to a pair of images in both orders.
SpecSymmetry == Init /\ [][SymmetryNext]_vars

\* Page rendering on every PDF and page index of the bounded input space.
SpecRender == Init /\ [][RenderNext]_vars

\* Concurrent /api/compare and /api/quota requests over the days.
SpecQuota == Init /\ [][QuotaNext]_vars

\* The Stripe webhook on the events of a subscription's life.
SpecStripe == Init /\ [][StripeNext]_vars

\* The HTTP API: /api/compare and /api/convert requests over the days.
SpecApi == Init /\ [][ApiNext]_vars

\* The detection engine on every input of the bounded input space.
EngineInit ==
    /\ original_folder = None
    /\ printer_folder = None
    /\ startup_mode = FALSE
    /\ image_pairs = <<>>
    /\ current_index = 0
    /\ current_page = 0
    /\ show_only_matched = FALSE
    /\ auto_crop_enabled \in BOOLEAN
    /\ manual_bounds_original \in {None} \cup ManualRects
    /\ manual_bounds_printer \in {None} \cup ManualRects
    /\ last_detection = None
    /\ current_original_img \in OptImages
    /\ current_printer_img \in OptImages
    /\ total_pages_original = 1
    /\ total_pages_printer = 1
    /\ page_validations = {}
    /\ listbox = <<>>
    /\ page_status_label = <<>>
    /\ shown = None
    /\ bounds_set_at = NoBoundsSet
    /\ decided = {}
    /\ moved_with_crop = FALSE
    /\ cancel_log = None
    /\ FlaskInit
    /\ WebInit
    /\ engine_pc = "input"
    /\ detection = None
    /\ similarity_score = None
    /\ web_result = None
    /\ resized = None
    /\ both_ways = None

SpecEngine == EngineInit /\ [][EngineNext]_vars

(***************************************************************************)
(* Properties.                                                             *)
(***************************************************************************)
\* The page count of one side as show_current_images sees it (1 when the side
\* is absent or cannot be rendered), and N = the max of the two.
SidePages(side) == IF side # None /\ side[1].pages > 0 THEN side[1].pages ELSE 1

PairPages(pair) == Max(SidePages(pair.original), SidePages(pair.printer))

HasDecision(pair_index, page) == [pair |-> pair_index, page |-> page] \in decided

\* C1: validate_image, pages of an N-page pair approved and rejected in any
\* order (no filter): the status in the pair's row is Pending while a page of
\* 0..N-1 has no decision, Rejected when all N have one and at least one is
\* Rejected, Approved when all N have one and none is Rejected.
C1_PairStatusAggregates ==
    ~startup_mode =>
        \A i \in 1..Len(listbox) :
            LET N == PairPages(image_pairs[i])
                undecided == \E page \in 0..(N - 1) : ~HasDecision(i - 1, page)
                rejected == \E page \in 0..(N - 1) :
                                /\ IsValidated(page_validations, i - 1, page)
                                /\ StatusOf(page_validations, i - 1, page) = "Rejected"
                status == listbox[i].validation[1]
            IN /\ undecided => status = "Pending"
               /\ (~undecided /\ rejected) => status = "Rejected"
               /\ (~undecided /\ ~rejected) => status = "Approved"

\* A row of a MaxPages-page pair is Rejected with one page approved and another
\* rejected.
C1_Witness ==
    /\ ~startup_mode
    /\ \E i \in 1..Len(listbox) :
         /\ PairPages(image_pairs[i]) = MaxPages
         /\ listbox[i].validation = <<"Rejected">>
         /\ \A page \in 0..(MaxPages - 1) : HasDecision(i - 1, page)
         /\ \E page \in 0..(MaxPages - 1) :
                StatusOf(page_validations, i - 1, page) = "Approved"

\* C2: a page counted as decided for the displayed pair has a decision that
\* was made while that pair was displayed, whatever validate_image, navigation
\* and toggle_filter actions came before.
C2_DecisionsKeyedByPair ==
    (~startup_mode /\ get_filtered_pairs(image_pairs, show_only_matched) # <<>>) =>
        \A page \in 0..(get_max_pages - 1) :
            IsValidated(page_validations, current_index, page) => HasDecision(shown[1], page)

\* C3: an auto_approve call leaves every result validated by validate_item
\* (Approved or Rejected) as it is, and every result it changes was Pending
\* with a score >= the threshold of the call.
C3_AutoApproveOnlyPending ==
    [][flask_log'.op = "auto_approve" =>
        /\ Len(comparison_results') = Len(comparison_results)
        /\ \A i \in 1..Len(comparison_results) :
             /\ comparison_results[i].validation \in {"Approved", "Rejected"}
                    => comparison_results'[i] = comparison_results[i]
             /\ comparison_results'[i] # comparison_results[i]
                    => /\ comparison_results[i].validation = "Pending"
                       /\ comparison_results[i].score # None
                       /\ comparison_results[i].score[1] >= flask_log'.threshold]_vars

\* After an auto_approve call one result is still Rejected although its score
\* reaches the threshold, and another was Auto-Approved by the call.
C3_Witness ==
    /\ flask_log.op = "auto_approve"
    /\ \E i, j \in 1..Len(comparison_results) :
         /\ comparison_results[i].validation = "Rejected"
         /\ comparison_results[i].score # None
         /\ comparison_results[i].score[1] > 0
         /\ comparison_results[i].score[1] >= flask_log.threshold
         /\ comparison_results[j].validation = "Auto-Approved"
         /\ comparison_results[j].date = "auto"

\* C4: no result whose original or printer PDF has more than one page is
\* Auto-Approved, by upload or by auto_approve.
C4_NoMultiPageAutoApproved ==
    \A i \in 1..Len(comparison_results) :
        LET r == comparison_results[i]
            multi_page == \/ r.original_path # None /\ r.original_path[1].pages > 1
                          \/ r.printer_path # None /\ r.printer_path[1].pages > 1
        IN multi_page => r.validation # "Auto-Approved"

\* C5: a manual crop that is set was set while the displayed (pair, page) was
\* displayed, and every step that changes the displayed (pair, page) leaves
\* both manual crops empty.
C5_ManualCropsCleared ==
    /\ [](/\ manual_bounds_original # None => bounds_set_at.original = <<shown>>
          /\ manual_bounds_printer # None => bounds_set_at.printer = <<shown>>)
    /\ [][shown' # shown =>
            manual_bounds_original' = None /\ manual_bounds_printer' = None]_vars

\* The displayed (pair, page) changed while a manual crop was set, and no crop
\* is set now.
C5_Witness ==
    /\ ~startup_mode
    /\ moved_with_crop
    /\ manual_bounds_original = None
    /\ manual_bounds_printer = None

\* C6: detect_content_region with auto-crop enabled gives (threshold region,
\* 0.9, 'threshold') exactly when the threshold method returns a region of ratio
\* strictly inside (0.15, 0.95) and of width and height >= 100; otherwise (edge
\* region, 0.7, 'edge') exactly when the edge method returns a region passing
\* the same gate; otherwise (full image, 0.5, 'full').
C6_SelectionPolicy ==
    (engine_pc = "detected" /\ auto_crop_enabled) =>
        LET img == current_original_img[1]
            Passes(b) ==
                /\ b # None
                /\ 100 * ((b[3] - b[1]) * (b[4] - b[2])) > 15 * (img.w * img.h)
                /\ 100 * ((b[3] - b[1]) * (b[4] - b[2])) < 95 * (img.w * img.h)
                /\ b[3] - b[1] >= 100
                /\ b[4] - b[2] >= 100
            bt == detect_content_bounds(img)
            be == detect_content_bounds_edge(img)
        IN /\ (detection = <<bt, 90, "threshold">>) <=> Passes(bt)
           /\ ~Passes(bt) => ((detection = <<be, 70, "edge">>) <=> Passes(be))
           /\ (~Passes(bt) /\ ~Passes(be)) => detection = <<<<0, 0, img.w, img.h>>, 50, "full">>
           /\ Passes(bt) => detection[3] # "edge"

\* The threshold method returned a region that fails the gate and the edge
\* region was taken.
C6_Witness ==
    /\ engine_pc = "detected"
    /\ auto_crop_enabled
    /\ detect_content_bounds(current_original_img[1]) # None
    /\ detection[3] = "edge"

\* C7: in calculate_similarity a side with a manual rectangle gets that
\* rectangle, confidence 1.0 and method 'manual' whatever the auto-crop setting
\* and the image; a side without one gets detect_content_region of its image.
C7_ManualOverridePerSide ==
    (engine_pc = "desktop" /\ current_original_img # None /\ current_printer_img # None) =>
        LET ld == last_detection[1]
        IN /\ manual_bounds_original # None =>
                <<ld.bounds1, ld.conf1, ld.methods[1]>> = <<manual_bounds_original, 100, "manual">>
           /\ manual_bounds_original = None =>
                <<ld.bounds1, ld.conf1, ld.methods[1]>> =
                    detect_content_region(current_original_img[1], auto_crop_enabled)
           /\ manual_bounds_printer # None =>
                <<ld.bounds2, ld.conf2, ld.methods[2]>> = <<manual_bounds_printer, 100, "manual">>
           /\ manual_bounds_printer = None =>
                <<ld.bounds2, ld.conf2, ld.methods[2]>> =
                    detect_content_region(current_printer_img[1], auto_crop_enabled)

\* One side is manual, the other was cropped by the threshold method.
C7_Witness ==
    /\ engine_pc = "desktop"
    /\ manual_bounds_original # None
    /\ manual_bounds_printer = None
    /\ last_detection # None
    /\ last_detection[1].methods = <<"manual", "threshold">>

\* C8: with auto-crop disabled the outcome is the full image, confidence 1.0,
\* method 'disabled', in detect_content_region and in the web backend's
\* calculate_similarity (which reports the full image as bounds None).
C8_DisabledOutcome ==
    /\ (engine_pc = "detected" /\ ~auto_crop_enabled) =>
            detection = <<<<0, 0, current_original_img[1].w, current_original_img[1].h>>,
                          100, "disabled">>
    /\ (engine_pc = "web" /\ ~auto_crop_enabled
            /\ current_original_img # None /\ current_printer_img # None) =>
            /\ web_result[1].bounds1 = None
            /\ web_result[1].bounds2 = None
            /\ web_result[1].confidence = 100
            /\ web_result[1].method = "disabled"

ConfidenceOf(method) ==
    CASE method = "manual" -> 100
      [] method = "disabled" -> 100
      [] method = "threshold" -> 90
      [] method = "edge" -> 70
      [] method = "full" -> 50

\* C9: every result carries the confidence of its method (manual 1.0, disabled
\* 1.0, threshold 0.9, edge 0.7, full 0.5), in desktop v3 and in the web
\* backend's calculate_similarity.
C9_ConfidenceOfMethod ==
    /\ engine_pc = "detected" => detection[2] = ConfidenceOf(detection[3])
    /\ (engine_pc = "desktop" /\ last_detection # None) =>
            /\ last_detection[1].conf1 = ConfidenceOf(last_detection[1].methods[1])
            /\ last_detection[1].conf2 = ConfidenceOf(last_detection[1].methods[2])
    /\ (engine_pc = "web" /\ web_result[1].method # "error") =>
            web_result[1].confidence = ConfidenceOf(web_result[1].method)

\* C10: what is applied to image 1 (region, confidence, method) is the same
\* with any other second image, in desktop calculate_similarity and in the web
\* backend's calculate_similarity.
C10_PerImageIndependent ==
    /\ (engine_pc = "desktop" /\ current_original_img # None /\ current_printer_img # None) =>
            \A other \in Images :
                LET d == LastDetection(current_original_img[1], other, manual_bounds_original,
                                       manual_bounds_printer, auto_crop_enabled)
                IN <<d.bounds1, d.conf1, d.methods[1]>> =
                       <<last_detection[1].bounds1, last_detection[1].conf1,
                         last_detection[1].methods[1]>>
    /\ (engine_pc = "web" /\ current_original_img # None /\ current_printer_img # None) =>
            \A other \in Images, s \in SsimValues :
                LET r == web_calculate_similarity(current_original_img, <<other>>,
                                                  auto_crop_enabled, s)
                IN <<r.bounds1, r.confidence, r.method>> =
                       <<web_result[1].bounds1, web_result[1].confidence, web_result[1].method>>

\* C11: every region detect_content_region returns lies inside the image and
\* has positive area: 0 <= left < right <= w and 0 <= top < bottom <= h,
\* whatever the method (disabled, threshold, edge, full).
C11_RegionInsideImage ==
    engine_pc = "detected" =>
        LET img == current_original_img[1]
            left == detection[1][1]
            top == detection[1][2]
            right == detection[1][3]
            bottom == detection[1][4]
        IN /\ 0 <= left /\ left < right /\ right <= img.w
           /\ 0 <= top /\ top < bottom /\ bottom <= img.h

\* A threshold region whose content reaches both vertical edges of the page:
\* the padded region was cut to the image.
C11_Witness ==
    /\ engine_pc = "detected"
    /\ detection[3] = "threshold"
    /\ current_original_img[1].cols = <<0, current_original_img[1].w - 1>>
    /\ detection[1][1] = 0
    /\ detection[1][3] = current_original_img[1].w

\* The code of a file: the first 8 characters of its base name.
CodeOf(file) == SubSeq(file.name, 1, Min(8, Len(file.name)))

\* The first file of the printer set, in its order, with the code of the
\* original, as an optional value.
FirstPrinterFor(original, printers) ==
    IF \E j \in 1..Len(printers) : CodeOf(printers[j]) = CodeOf(original)
    THEN <<printers[CHOOSE j \in 1..Len(printers) :
                /\ CodeOf(printers[j]) = CodeOf(original)
                /\ \A k \in 1..(j - 1) : CodeOf(printers[k]) # CodeOf(original)]>>
    ELSE None

\* C12: original pass of the pair resolver (Flask upload_files, desktop
\* load_images): each file of the original set yields exactly one pair, whose
\* code is the first 8 characters of its base name, whose printer side is the
\* first printer file with that code or absent, marked Both iff a printer file
\* was found and OriginalOnly otherwise; no pair has both sides absent.
C12_OriginalPass ==
    /\ uploaded # None =>
         LET originals == uploaded[1]
             printers == uploaded[2]
         IN /\ Len(comparison_results) >= Len(originals)
            /\ \A i \in 1..Len(originals) :
                 LET r == comparison_results[i]
                 IN /\ r.original_path = <<originals[i]>>
                    /\ r.litho_code = CodeOf(originals[i])
                    /\ r.printer_path = FirstPrinterFor(originals[i], printers)
                    /\ r.matching = IF r.printer_path # None THEN "Both" ELSE "Original only"
                    /\ \A j \in 1..Len(comparison_results) :
                         comparison_results[j].original_path = <<originals[i]>> => j = i
            /\ \A j \in 1..Len(comparison_results) :
                 comparison_results[j].original_path # None
                    \/ comparison_results[j].printer_path # None
    /\ ~startup_mode =>
         /\ Len(image_pairs) >= Len(original_folder)
         /\ \A i \in 1..Len(original_folder) :
              /\ image_pairs[i].original = <<original_folder[i]>>
              /\ image_pairs[i].printer = FirstPrinterFor(original_folder[i], printer_folder)
              /\ \A j \in 1..Len(image_pairs) :
                   image_pairs[j].original = <<original_folder[i]>> => j = i
              /\ ~show_only_matched =>
                   /\ listbox[i].litho_code = CodeOf(original_folder[i])
                   /\ listbox[i].matching = IF image_pairs[i].printer # None
                                            THEN "Both files" ELSE "Original only"
         /\ \A j \in 1..Len(image_pairs) :
              image_pairs[j].original # None \/ image_pairs[j].printer # None

\* An upload with two printer files of the code of an original: the pair holds
\* the first of them; and a desktop analysis that paired an original.
C12_Witness ==
    /\ uploaded # None
    /\ \E i \in 1..Len(uploaded[1]) :
         /\ Cardinality({j \in 1..Len(uploaded[2]) :
                            CodeOf(uploaded[2][j]) = CodeOf(uploaded[1][i])}) = 2
         /\ comparison_results[i].printer_path = <<uploaded[2][1]>>
    /\ ~startup_mode
    /\ \E i \in 1..Len(image_pairs) : image_pairs[i].printer # None

\* The printer file has the code of no file of the original set.
Unmatched(printer, originals) ==
    \A i \in 1..Len(originals) : CodeOf(originals[i]) # CodeOf(printer)

\* C13: printer pass of the pair resolver (Flask upload_files, desktop
\* load_images): every printer file whose code is the code of no original file
\* is a PrinterOnly pair of the output, and no other printer file is.
C13_PrinterPass ==
    /\ uploaded # None =>
         /\ \A j \in 1..Len(uploaded[2]) :
              Unmatched(uploaded[2][j], uploaded[1]) =>
                 \E k \in 1..Len(comparison_results) :
                    /\ comparison_results[k].original_path = None
                    /\ comparison_results[k].printer_path = <<uploaded[2][j]>>
                    /\ comparison_results[k].matching = "Printer only"
         /\ \A k \in 1..Len(comparison_results) :
              comparison_results[k].original_path = None =>
                 Unmatched(comparison_results[k].printer_path[1], uploaded[1])
    /\ ~startup_mode =>
         /\ \A j \in 1..Len(printer_folder) :
              Unmatched(printer_folder[j], original_folder) =>
                 \E k \in 1..Len(image_pairs) :
                    /\ image_pairs[k].original = None
                    /\ image_pairs[k].printer = <<printer_folder[j]>>
         /\ \A k \in 1..Len(image_pairs) :
              image_pairs[k].original = None =>
                 Unmatched(image_pairs[k].printer[1], original_folder)

\* C14: the result list of an upload holds the original-derived pairs first, in
\* the order of the original set, then the PrinterOnly pairs in the order of the
\* printer set.
C14_OutputOrdering ==
    uploaded # None =>
        LET originals == uploaded[1]
            IsUnmatchedPrinter(p) == Unmatched(p, originals)
            printer_only == SelectSeq(uploaded[2], IsUnmatchedPrinter)
            n == Len(originals)
        IN /\ Len(comparison_results) = n + Len(printer_only)
           /\ \A i \in 1..n : comparison_results[i].original_path = <<originals[i]>>
           /\ \A k \in 1..Len(printer_only) :
                /\ comparison_results[n + k].original_path = None
                /\ comparison_results[n + k].printer_path = <<printer_only[k]>>

\* An upload whose result list holds an original-derived pair followed by a
\* PrinterOnly pair.
C14_Witness ==
    /\ uploaded # None
    /\ Len(uploaded[1]) >= 1
    /\ Len(comparison_results) > Len(uploaded[1])
    /\ comparison_results[Len(comparison_results)].matching = "Printer only"

\* C15: a pair with only one side never receives a score: in the Flask
\* application its score is None and it is not Auto-Approved, after any uploads
\* and auto_approve calls; in desktop v3 its similarity column stays N/A.
C15_OneSidedNeverScored ==
    /\ \A k \in 1..Len(comparison_results) :
         LET r == comparison_results[k]
         IN (r.original_path = None \/ r.printer_path = None) =>
                r.score = None /\ r.validation # "Auto-Approved"
    /\ ~startup_mode =>
         LET fp == get_filtered_pairs(image_pairs, show_only_matched)
         IN \A i \in 1..Len(listbox) :
                (fp[i][2].original = None \/ fp[i][2].printer = None) =>
                    listbox[i].similarity = <<"N/A">>

\* auto_approve has just approved a pair of an upload that also holds a
\* one-sided pair, and the desktop displays a one-sided pair after having
\* displayed a scored one.
C15_Witness ==
    /\ flask_log.op = "auto_approve"
    /\ \E j, k \in 1..Len(comparison_results) :
         /\ comparison_results[j].date = "auto"
         /\ comparison_results[k].printer_path = None \/ comparison_results[k].original_path = None
    /\ ~startup_mode
    /\ ~show_only_matched
    /\ image_pairs[shown[1] + 1].printer = None
    /\ \E i \in 1..Len(listbox) : listbox[i].similarity # <<"N/A">>

\* C16: when an input image is missing or cannot be decoded, the comparison
\* does not report the number 0 as the similarity (web backend
\* calculate_similarity, whose fields /api/compare copies into its response;
\* desktop calculate_similarity).
C16_DegenerateNotZero ==
    /\ (engine_pc = "web" /\ (current_original_img = None \/ current_printer_img = None)) =>
            web_result[1].similarity # 0
    /\ (engine_pc = "desktop" /\ (current_original_img = None \/ current_printer_img = None)) =>
            similarity_score # <<0>>

\* C17: a threshold comparison uses the unrounded score: a pair that upload
\* has Auto-Approved has an unrounded score (in 1e-5) that reaches the
\* threshold of the upload (in 1e-2 percent).
C17_ThresholdOnUnroundedScore ==
    flask_log.op = "upload" =>
        \A i \in 1..Len(comparison_results) :
            comparison_results[i].validation = "Auto-Approved" =>
                /\ uploaded[3][i] # None
                /\ uploaded[3][i][1] >= 10 * flask_log.threshold

\* C18: a non-empty crop is scaled by the largest aspect-preserving factor
\* that fits the canvas, larger than 1 for a small crop, so the pasted
\* content is as wide or as high as the canvas; it is centred on a canvas of
\* exactly the target size.
C18_NormalizerScaling ==
    (engine_pc \in {"desktop", "web"} /\ resized # None) =>
        \A k \in 1..2 :
            (resized[k].input[1] > 0 /\ resized[k].input[2] > 0) =>
                /\ resized[k].canvas = TargetSize
                /\ resized[k].content[1] <= TargetSize[1]
                /\ resized[k].content[2] <= TargetSize[2]
                /\ resized[k].content[1] = TargetSize[1] \/ resized[k].content[2] = TargetSize[2]
                /\ resized[k].offset = <<(TargetSize[1] - resized[k].content[1]) \div 2,
                                         (TargetSize[2] - resized[k].content[2]) \div 2>>

\* C19: the similarity score is symmetric: in every scorer, the score of
\* (A, B) equals the score of (B, A).
C19_ScoreSymmetric ==
    both_ways # None => both_ways.ab = both_ways.ba

\* The detections made by the last engine call with auto-crop on: the image
\* and the <<bounds, confidence, method>> detect_content_region gave for it.
AutoDetections ==
    IF ~auto_crop_enabled THEN {}
    ELSE IF engine_pc = "detected"
    THEN {<<current_original_img[1], detection>>}
    ELSE IF engine_pc = "desktop" /\ current_original_img # None /\ current_printer_img # None
    THEN (IF manual_bounds_original # None THEN {}
          ELSE {<<current_original_img[1],
                  <<last_detection[1].bounds1, last_detection[1].conf1,
                    last_detection[1].methods[1]>> >>})
         \cup
         (IF manual_bounds_printer # None THEN {}
          ELSE {<<current_printer_img[1],
                  <<last_detection[1].bounds2, last_detection[1].conf2,
                    last_detection[1].methods[2]>> >>})
    ELSE {}

\* C20: an error inside a detection method never leaves detection: when the
\* threshold method raises, the result is the edge region exactly when the
\* edge method returns one that passes the gate; when the edge method raises
\* too, the result is the full image with method 'full'; every detection
\* returns a result and the similarity call that made it returns a score.
C20_DetectionErrorsContained ==
    /\ \A d \in AutoDetections :
         LET img == d[1]
             padding == (Min(img.h, img.w) * 5) \div 100
             be == <<Max(0, img.edge_box[2] - padding), Max(0, img.edge_box[1] - padding),
                     Min(img.w, img.edge_box[4] + padding),
                     Min(img.h, img.edge_box[3] + padding)>>
             edge_passes ==
                 /\ ~img.edge_raises
                 /\ img.edge_box # <<>>
                 /\ 100 * ((be[3] - be[1]) * (be[4] - be[2])) > 15 * (img.w * img.h)
                 /\ 100 * ((be[3] - be[1]) * (be[4] - be[2])) < 95 * (img.w * img.h)
                 /\ be[3] - be[1] >= 100
                 /\ be[4] - be[2] >= 100
             full == <<<<0, 0, img.w, img.h>>, 50, "full">>
         IN /\ d[2][3] \in {"threshold", "edge", "full"}
            /\ img.thr_raises => d[2] = (IF edge_passes THEN <<be, 70, "edge">> ELSE full)
            /\ (img.thr_raises /\ img.edge_raises) => d[2] = full
            /\ (img.edge_raises /\ d[2][3] # "threshold") => d[2] = full
    /\ (engine_pc = "desktop" /\ current_original_img # None /\ current_printer_img # None) =>
            /\ last_detection # None
            /\ similarity_score # None

\* A similarity call in which the threshold method raised on both images: the
\* edge region was taken for the original, the edge method raised too on the
\* printer image, which got the full image, and a score was returned.
C20_Witness ==
    /\ engine_pc = "desktop"
    /\ auto_crop_enabled
    /\ manual_bounds_original = None
    /\ manual_bounds_printer = None
    /\ current_original_img # None
    /\ current_printer_img # None
    /\ current_original_img[1].thr_raises
    /\ ~current_original_img[1].edge_raises
    /\ current_printer_img[1].thr_raises
    /\ current_printer_img[1].edge_raises
    /\ last_detection # None
    /\ last_detection[1].methods = <<"edge", "full">>
    /\ similarity_score # None

\* C21: for a readable PDF of T >= 1 pages and a requested index outside
\* 0..T-1, too large or negative, rendering succeeds, renders page 0 and
\* returns the total page count T.
C21_OutOfRangeRendersFirstPage ==
    (rendered # None /\ rendered.pdf.pages >= 1
        /\ rendered.requested \notin 0..(rendered.pdf.pages - 1)) =>
            /\ rendered.success
            /\ rendered.page = <<0>>
            /\ rendered.total_pages = rendered.pdf.pages

\* C22: for any interleaving of check_and_increment_quota and get_quota calls
\* of one user within one UTC day, the number of check_and_increment_quota
\* calls that return success does not exceed the tier's daily limit.
C22_QuotaNeverExceeded ==
    \A uid \in Uids : granted[uid] <= QUOTA_LIMITS(TierOf(uid))

\* C23: handling invoice.payment_failed for a user whose stored tier is 'pro'
\* leaves the stored tier 'pro', whatever the status of the subscription.
C23_FailedPaymentKeepsTier ==
    (webhook_log # None /\ webhook_log.type = "invoice.payment_failed"
        /\ webhook_log.before # None /\ webhook_log.before[1].tier = "pro") =>
            user_doc[1].tier = "pro"

\* C24: no discovered file is dropped by pairing: every original file and
\* every printer file of an upload is in at least one pair of the result.
C24_NoFileDropped ==
    uploaded # None =>
        /\ \A i \in 1..Len(uploaded[1]) :
             \E k \in 1..Len(comparison_results) :
                 comparison_results[k].original_path = <<uploaded[1][i]>>
        /\ \A j \in 1..Len(uploaded[2]) :
             \E k \in 1..Len(comparison_results) :
                 comparison_results[k].printer_path = <<uploaded[2][j]>>

\* C25: in every state reached by validate_image, navigation and
\* toggle_filter, the status shown in a row of the list is the aggregate of
\* the page decisions stored for that row's pair: Pending while a page has
\* none, else Rejected when one is Rejected, else Approved.
C25_RowShowsStoredDecisions ==
    ~startup_mode =>
        LET fp == get_filtered_pairs(image_pairs, show_only_matched)
        IN \A i \in 1..Len(listbox) :
             LET N == PairPages(fp[i][2])
                 all_set == \A page \in 0..(N - 1) :
                                IsValidated(page_validations, i - 1, page)
                 rejected == \E page \in 0..(N - 1) :
                                /\ IsValidated(page_validations, i - 1, page)
                                /\ StatusOf(page_validations, i - 1, page) = "Rejected"
                 status == listbox[i].validation[1]
             IN /\ ~all_set => status = "Pending"
                /\ (all_set /\ rejected) => status = "Rejected"
                /\ (all_set /\ ~rejected) => status = "Approved"

\* C26: while the filtered list is not empty, after any sequence of
\* navigation, list selection, toggle_filter and validate_image actions,
\* 0 <= current_index < number of filtered pairs and 0 <= current_page <
\* max(pages of original, pages of printer) of the displayed pair; an action
\* that changes the displayed pair leaves current_page at 0.
C26_NavigationBounds ==
    /\ [](( ~startup_mode /\ get_filtered_pairs(image_pairs, show_only_matched) # <<>>) =>
            LET fp == get_filtered_pairs(image_pairs, show_only_matched)
            IN /\ 0 <= current_index
               /\ current_index < Len(fp)
               /\ 0 <= current_page
               /\ current_page < PairPages(fp[current_index + 1][2])
               /\ shown = <<fp[current_index + 1][1], current_page>>)
    /\ [][(~startup_mode /\ ~startup_mode' /\ shown # None /\ shown' # None
            /\ shown'[1] # shown[1]) => current_page' = 0]_vars

\* The last page of the last pair of a list of several pairs is displayed.
C26_Witness ==
    /\ ~startup_mode
    /\ LET fp == get_filtered_pairs(image_pairs, show_only_matched)
       IN /\ Len(fp) >= 2
          /\ current_index = Len(fp) - 1
          /\ PairPages(fp[current_index + 1][2]) >= 2
          /\ current_page = PairPages(fp[current_index + 1][2]) - 1
          /\ shown = <<fp[current_index + 1][1], current_page>>

\* C27: validate_image(False) with the reject dialog cancelled leaves
\* page_validations, the list rows, current_index and current_page as they
\* were.
C27_CancelledRejectionNoEffect ==
    cancel_log # None => cancel_log = <<TRUE>>

\* A rejection was cancelled on a pair that already has a page decision.
C27_Witness ==
    /\ cancel_log # None
    /\ ~startup_mode
    /\ \E page \in 0..(MaxPages - 1) : IsValidated(page_validations, current_index, page)

\* The usage of the current day a quota document stands for, as get_quota
\* reads it: 0 for a missing document or one of another day.
UsageOn(doc, day) ==
    IF doc = None \/ doc[1].lastReset # day THEN 0 ELSE doc[1].comparisons

\* C28: a /api/compare request rejected with 429 leaves the stored usage
\* unchanged; a request that passes the quota check increases the usage of the
\* day by exactly 1, also when the comparison gives the error result or ends
\* in HTTP 500; /api/convert never changes the quota documents.
C28_QuotaAccounting ==
    /\ [](compare_response # None =>
            LET r == compare_response
            IN /\ r.status = 429 => r.after = r.before
               /\ r.status # 429 =>
                     UsageOn(r.after, r.today) = UsageOn(r.before, r.today) + 1
               /\ r.status \in {200, 429, 500}
               /\ r.quota.used = UsageOn(r.after, r.today))
    /\ [][(rendered' # rendered) => quotas' = quotas]_vars

\* A request passed the quota check, its comparison ended in HTTP 500, and a
\* page had been converted before.
C28_Witness ==
    /\ compare_response # None
    /\ compare_response.status = 500
    /\ UsageOn(compare_response.after, compare_response.today) >= 2
    /\ rendered # None

\* C29: a score of exactly 0 is a score like any other: the CSV export prints
\* 'N/A' only for a result whose score is None, and after auto_approve with
\* threshold 0 no result with score 0 is still Pending.
C29_ZeroScoreIsAScore ==
    /\ \A i \in 1..Len(comparison_results) :
         export_csv_score(comparison_results[i]) = <<"N/A">> =>
             comparison_results[i].score = None
    /\ (flask_log.op = "auto_approve" /\ flask_log.threshold = 0) =>
         \A i \in 1..Len(comparison_results) :
             comparison_results[i].score = <<0>> =>
                 comparison_results[i].validation # "Pending"

\* C30: a rejection comment survives later page decisions: whenever a row's
\* status is Rejected, its comment is the comment entered for a rejected page
\* of the pair.
C30_RejectCommentKept ==
    ~startup_mode =>
        \A i \in 1..Len(listbox) :
            listbox[i].validation = <<"Rejected">> => listbox[i].comment \in RejectComments

Next == DesktopNext \/ FlaskNext

Spec == SpecDesktop

====
